---- MODULE Spec2Model ----
(***************************************************************************)
(* A model of TrendFire.py: the boundary loader (get_goa_boundary,         *)
(* debug_shapefile), the four trend builders, the merge and the export     *)
(* submissions of main().  Everything the Earth Engine service evaluates   *)
(* remotely is kept symbolic: an image is the sequence of its bands, a     *)
(* band is a name together with the function that produced it.             *)
(***************************************************************************)
EXTENDS Integers, Sequences, FiniteSets, TLC

VARIABLES
    pc,              \* position of main()
    session,         \* state of the process-wide Earth Engine session
    shapefile,       \* data/pa_boundary.shp as found on disk
    goa,             \* value of main()'s local goa
    ee_geometry_error, \* whether ee.Geometry.Polygon raised inside the loader
    attempts,        \* how many times each stage of main() was entered
    mapped,          \* functions mapped over the Landsat collection
    landsat_collection, \* bands of main()'s landsat_collection (ls8_with_smi)
    landsat_trends, rain_trends, sm_trends, rh_trends, all_trends,
    exports,         \* export requests whose task.start() returned, in order
    taskStatus,      \* remote status of each started export task
    stdout           \* what the run printed (key messages)

vars == <<pc, session, shapefile, goa, ee_geometry_error, attempts, mapped,
          landsat_collection, landsat_trends, rain_trends, sm_trends, rh_trends, all_trends,
          exports, taskStatus, stdout>>

----------------------------------------------------------------------------
(* Bounds of the inputs *)

MaxCoord == 1
MaxRingLen == 2

Coords == 0..MaxCoord

(* Program constant: the export scale passed by every caller *)
ExportScale == 30

----------------------------------------------------------------------------
(* The boundary file *)

Points2D == {<<x, y>> : x \in Coords, y \in Coords}
Points3D == {<<x, y, z>> : x \in Coords, y \in Coords, z \in Coords}

Rings(points, maxLen) == UNION {[1..n -> points] : n \in 1..maxLen}

(* A shapely geometry as far as the loader looks at it.  A polygon has no  *)
(* interior ring or one (a one-vertex ring at the exterior's last vertex). *)
(* A non-polygon (type "Point") has no exterior ring; its coordinates are  *)
(* held in exterior[1].                                                    *)
PolygonGeoms(points, z, maxLen) ==
    {[type |-> "Polygon", exterior |-> e,
      interiors |-> IF hole THEN <<<<e[Len(e)]>>>> ELSE <<>>,
      has_z |-> z, is_valid |-> v] :
        e \in Rings(points, maxLen), hole \in BOOLEAN, v \in BOOLEAN}

PointGeoms ==
    {[type |-> "Point", exterior |-> <<p>>, interiors |-> <<>>, has_z |-> (Len(p) = 3),
      is_valid |-> TRUE] : p \in {<<0, MaxCoord>>, <<0, MaxCoord, 0>>}}

Geometries(maxLen) ==
    PolygonGeoms(Points2D, FALSE, maxLen) \cup PolygonGeoms(Points3D, TRUE, maxLen)
        \cup PointGeoms

(* A second feature some files carry after the first one *)
OtherFeature ==
    [type |-> "Polygon", exterior |-> <<<<MaxCoord, 0>>>>, interiors |-> <<>>,
     has_z |-> FALSE, is_valid |-> FALSE]

Shapefiles(maxLen) ==
    {[exists |-> FALSE, readable |-> FALSE, features |-> <<>>],
     [exists |-> TRUE, readable |-> FALSE, features |-> <<>>],
     [exists |-> TRUE, readable |-> TRUE, features |-> <<>>]}
    \cup {[exists |-> TRUE, readable |-> TRUE, features |-> <<g>>] : g \in Geometries(maxLen)}
    \cup {[exists |-> TRUE, readable |-> TRUE, features |-> <<g, OtherFeature>>] :
            g \in PolygonGeoms(Points2D, FALSE, 1)}

None == [isNone |-> TRUE, coordinates |-> <<>>]

(* Outcome of a call: raised, or returned value *)
Returned(v) == [raised |-> FALSE, value |-> v]
Raised == [raised |-> TRUE, value |-> None]

(* debug_shapefile: read the file, inspect it, return the frame unchanged; *)
(* any exception is caught and None returned.                              *)
debug_shapefile(shp) ==
    LET read == IF shp.readable THEN Returned(shp.features) ELSE [raised |-> TRUE, value |-> <<>>]
    IN  IF read.raised
        THEN [isNone |-> TRUE, features |-> <<>>]
        ELSE [isNone |-> FALSE, features |-> read.value]

(* shapely.geometry.Polygon(shell) *)
Polygon(shell) ==
    [type |-> "Polygon", exterior |-> shell, interiors |-> <<>>, has_z |-> FALSE,
     is_valid |-> TRUE]

(* coords_2d = [(x, y) for x, y, z in coords] *)
coords_2d_drops_x(coords) == [i \in 1..Len(coords) |-> <<coords[i][2], coords[i][3]>>]

coords_2d(coords) == [i \in 1..Len(coords) |-> <<coords[i][1], coords[i][2]>>]

(* gdf.__geo_interface__['features'][0]['geometry']['coordinates'] *)
geo_interface_coordinates(geometry) ==
    IF geometry.type = "Polygon"
    THEN <<geometry.exterior>> \o geometry.interiors
    ELSE geometry.exterior[1]

(* ee.Geometry.Polygon(coordinates) *)
ee_Geometry_Polygon(coordinates) == [isNone |-> FALSE, coordinates |-> coordinates]

(* The body of get_goa_boundary's try block *)
get_goa_boundary_try(shp, ee_raises) ==
    IF ~shp.exists THEN Returned(None)
    ELSE LET gdf == debug_shapefile(shp) IN
         IF gdf.isNone THEN Returned(None)
         ELSE IF Len(gdf.features) = 0 THEN Returned(None)
         ELSE LET geometry == gdf.features[1] IN
              IF ~geometry.is_valid THEN Returned(None)
              ELSE IF geometry.has_z /\ geometry.type # "Polygon"
                   THEN Raised    \* geometry.exterior: AttributeError
              ELSE LET flat == IF geometry.has_z
                               THEN Polygon(coords_2d(geometry.exterior))
                               ELSE geometry
                   IN  IF ee_raises THEN Raised
                       ELSE Returned(ee_Geometry_Polygon(geo_interface_coordinates(flat)))

(* get_goa_boundary: the try block under "except Exception: return None" *)
get_goa_boundary_uncaught(shp, ee_raises) == get_goa_boundary_try(shp, ee_raises)

get_goa_boundary(shp, ee_raises) ==
    LET r == get_goa_boundary_try(shp, ee_raises)
    IN  IF r.raised THEN Returned(None) ELSE r

(* Whether ee.Geometry.Polygon can raise: the loader gets as far as the    *)
(* call, and the client library is not initialized or is handed            *)
(* coordinates that are no polygon's.                                      *)
EeGeometryMayRaise(shp) ==
    /\ shp.exists /\ shp.readable /\ Len(shp.features) > 0
    /\ shp.features[1].is_valid
    /\ ~(shp.features[1].has_z /\ shp.features[1].type # "Polygon")
    /\ (session = "failed" \/ shp.features[1].type # "Polygon")

----------------------------------------------------------------------------
(* Images: a sequence of bands.  Of a band that ee.Reducer.linearFit()     *)
(* produced, fit is the output it is ("scale" or "offset") and x and y are *)
(* the regressor and the regressand; all three are "" otherwise.           *)

Band(name, by) == [name |-> name, by |-> by, fit |-> "", x |-> "", y |-> ""]

BandNames(image) == [i \in 1..Len(image) |-> image[i].name]

NameSet(image) == {image[i].name : i \in 1..Len(image)}

(* Image.addBands without overwrite: a band whose name is taken is renamed *)
(* with a numerical suffix, name_1 unless that exists, then name_2, ...    *)
FreshName(name, taken) ==
    IF name \notin taken THEN name
    ELSE LET k == CHOOSE i \in 1..(Cardinality(taken) + 1) :
                    /\ (name \o "_" \o ToString(i)) \notin taken
                    /\ \A j \in 1..(i - 1) : (name \o "_" \o ToString(j)) \in taken
         IN  name \o "_" \o ToString(k)

addBand(image, band) ==
    CHOOSE r \in {Append(im, [band EXCEPT !.name = FreshName(@, NameSet(im))]) :
                    im \in {image}} : TRUE

RECURSIVE addBands(_, _)
addBands(image, bands) ==
    IF bands = <<>> THEN image
    ELSE addBands(addBand(image, Head(bands)), Tail(bands))

(* Image.select(names): the named bands, in the order asked for *)
select(image, names) ==
    [i \in 1..Len(names) |-> image[CHOOSE k \in 1..Len(image) : image[k].name = names[i]]]

(* Image.select(pattern): the bands whose name matches, in image order *)
selectMatching(image, matching) ==
    LET F[i \in 0..Len(image)] ==
            IF i = 0 THEN <<>>
            ELSE IF image[i].name \in matching THEN Append(F[i - 1], image[i]) ELSE F[i - 1]
    IN  F[Len(image)]

(* Image.rename(name) of a one-band image *)
rename(image, name) == <<[image[1] EXCEPT !.name = name]>>

(* An arithmetic result keeps the band names and is the work of `by` *)
computedBy(image, by) == [i \in 1..Len(image) |-> [image[i] EXCEPT !.by = by]]

(* collection.reduce(ee.Reducer.linearFit()): the first band of the stack  *)
(* is the regressor x, the second the regressand y; the outputs are named  *)
(* scale and offset.                                                       *)
linearFit(stacked) ==
    <<[name |-> "scale", by |-> "linearFit", fit |-> "scale",
       x |-> stacked[1].name, y |-> stacked[2].name],
      [name |-> "offset", by |-> "linearFit", fit |-> "offset",
       x |-> stacked[1].name, y |-> stacked[2].name]>>

(* The addTimeBand closure of each builder *)
addTimeBand(image) == addBands(image, <<Band("time", "addTimeBand")>>)

----------------------------------------------------------------------------
(* Landsat 8 *)

(* The bands of a LANDSAT/LC08/C02/T1_L2 image the script refers to *)
RawL8 ==
    <<Band("SR_B2", "LC08"), Band("SR_B4", "LC08"), Band("SR_B5", "LC08"),
      Band("SR_B6", "LC08"), Band("SR_B7", "LC08"), Band("ST_B10", "LC08"),
      Band("QA_PIXEL", "LC08")>>

QABands == {"QA_PIXEL"}
OpticalBands == {"SR_B2", "SR_B4", "SR_B5", "SR_B6", "SR_B7"}
ThermalBands == {"ST_B10"}

maskL8sr(image) ==
    LET optical_bands == computedBy(selectMatching(image, OpticalBands), "maskL8sr")
        thermal_bands == computedBy(selectMatching(image, ThermalBands), "maskL8sr")
    IN  addBands(addBands(selectMatching(image, QABands), optical_bands), thermal_bands)

addIndices(image) ==
    addBands(image,
        <<Band("ndvi", "addIndices"), Band("evi", "addIndices"), Band("msavi", "addIndices"),
          Band("mirbi", "addIndices"), Band("ndmi", "addIndices"), Band("ndfi", "addIndices"),
          Band("nbr", "addIndices"), Band("nbr2", "addIndices"), Band("bsi", "addIndices")>>)

(* Per-image thermal normalization: (Ts_max - Ts) / (Ts_max - Ts_min) *)
calculateSMI(image) == addBands(image, <<Band("smi", "calculateSMI")>>)

(* Collection-wide SR_B7 normalization, the closure in process_landsat_trends *)
addSMI(image) == addBands(image, <<Band("smi", "addSMI")>>)

trend_bands ==
    <<"ndvi", "evi", "mirbi", "ndfi", "bsi", "ndmi", "nbr", "nbr2", "msavi", "smi", "ST_B10">>

(* The functions process_landsat_trends maps over the collection before    *)
(* it selects the trend bands, in order.                                   *)
LandsatMapsBoth == <<"maskL8sr", "clip", "addIndices", "calculateSMI", "addSMI">>
LandsatMaps == <<"maskL8sr", "clip", "addIndices", "addSMI">>

Apply(fn, image) ==
    CASE fn = "maskL8sr" -> maskL8sr(image)
      [] fn = "clip" -> image
      [] fn = "addIndices" -> addIndices(image)
      [] fn = "calculateSMI" -> calculateSMI(image)
      [] fn = "addSMI" -> addSMI(image)

RECURSIVE MapAll(_, _)
MapAll(fns, image) == IF fns = <<>> THEN image ELSE MapAll(Tail(fns), Apply(Head(fns), image))

(* One pass of the loop over trend_bands *)
BandTrend(collection_with_time, band) ==
    LET stacked == select(collection_with_time, <<"time", band>>)
        regression == linearFit(stacked)
        slope == rename(select(regression, <<"scale">>), band \o "_Slope")
        intercept == rename(select(regression, <<"offset">>), band \o "_Intercept")
    IN  [slope |-> slope, intercept |-> intercept]

RECURSIVE TrendLoop(_, _, _)
TrendLoop(collection_with_time, i, trends) ==
    IF i > Len(trend_bands) THEN trends
    ELSE LET t == BandTrend(collection_with_time, trend_bands[i])
         IN  TrendLoop(collection_with_time, i + 1,
                 IF trends = <<>>
                 THEN addBands(t.slope, t.intercept)
                 ELSE addBands(addBands(trends, t.slope), t.intercept))

----------------------------------------------------------------------------
(* Export submission *)

(* export_to_asset: the request handed to ee.batch.Export.image.toAsset;   *)
(* asset_name is the asset path split at '/'.                              *)
export_to_asset_description_as_id(image, asset_name, region, description, scale) ==
    [api |-> "toAsset", image |-> BandNames(image),
     description |-> IF description = "None" THEN asset_name[Len(asset_name)] ELSE description,
     assetId |-> <<asset_name[1], asset_name[2], description>>,
     region |-> region, scale |-> scale, maxPixels |-> "1e13"]

export_to_asset(image, asset_name, region, description, scale) ==
    [api |-> "toAsset", image |-> BandNames(image),
     description |-> IF description = "None" THEN asset_name[Len(asset_name)] ELSE description,
     assetId |-> asset_name, region |-> region, scale |-> scale, maxPixels |-> "1e13"]

(* export_to_drive: the request handed to ee.batch.Export.image.toDrive *)
export_to_drive(image, filename, region, description, folder, scale) ==
    [api |-> "toDrive", image |-> BandNames(image),
     description |-> IF description = "None" THEN filename ELSE description,
     folder |-> folder, fileNamePrefix |-> filename, region |-> region, scale |-> scale,
     maxPixels |-> "1e13"]

AssetPath(name) == <<"users", "jonasnothnagel", name>>

----------------------------------------------------------------------------
(* The four trend builders: what each returns and the export it submits *)

(* process_landsat_trends: the collection it regresses and the trends; *)
(* neither depends on the region.                                       *)
ls8_with_smi == select(MapAll(LandsatMaps, RawL8), trend_bands)

landsat_all_trends == TrendLoop(addTimeBand(ls8_with_smi), 1, <<>>)

process_landsat_trends(region) ==
    [trend |-> landsat_all_trends, collection |-> ls8_with_smi, mapped |-> LandsatMaps,
     export |-> export_to_asset(landsat_all_trends, AssetPath("Trend2023_landsat"), region,
                                "Landsat_Trends_2023", ExportScale)]

process_chirps_trends(region) ==
    LET yearly_sum == rename(<<Band("precipitation", "createYearlySum")>>, "precipitation")
        collection_with_time == addTimeBand(yearly_sum)
        stacked == select(collection_with_time, <<"time", "precipitation">>)
        regression == linearFit(stacked)
        slope == rename(select(regression, <<"scale">>), "rain_Slope")
        intercept == rename(select(regression, <<"offset">>), "rain_Intercept")
        trend == addBands(slope, intercept)
    IN  [trend |-> trend, collection |-> yearly_sum,
         export |-> export_to_asset(trend, AssetPath("Trend2022_rain_new"), region,
                                    "Precipitation_Trend_1982_2022", ExportScale)]

process_smap_trends_rain_names(region) ==
    LET smap == select(<<Band("soil_moisture_am", "SMAP")>>, <<"soil_moisture_am">>)
        soil_moisture_with_time == addTimeBand(smap)
        regression == linearFit(soil_moisture_with_time)
        slope == rename(select(regression, <<"scale">>), "rain_Slope")
        intercept == rename(select(regression, <<"offset">>), "rain_Intercept")
        trend == addBands(slope, intercept)
    IN  [trend |-> trend, collection |-> smap,
         export |-> export_to_asset(trend, AssetPath("Trend2023_SM_new"), region,
                                    "SM_Trend2015_2023", ExportScale)]

process_smap_trends(region) ==
    LET smap == select(<<Band("soil_moisture_am", "SMAP")>>, <<"soil_moisture_am">>)
        soil_moisture_with_time == addTimeBand(smap)
        regression == linearFit(soil_moisture_with_time)
        slope == rename(select(regression, <<"scale">>), "sm_surface_Slope")
        intercept == rename(select(regression, <<"offset">>), "sm_surface_Intercept")
        trend == addBands(slope, intercept)
    IN  [trend |-> trend, collection |-> smap,
         export |-> export_to_asset(trend, AssetPath("Trend2023_SM_new"), region,
                                    "SM_Trend2015_2023", ExportScale)]

process_era5_trends(region) ==
    LET rh_collection == rename(<<Band("RH", "calculateRH")>>, "RH")
        rh_with_time == addTimeBand(rh_collection)
        regression == linearFit(rh_with_time)
        slope == rename(select(regression, <<"scale">>), "rh_Slope")
        intercept == rename(select(regression, <<"offset">>), "rh_Intercept")
        trend == addBands(slope, intercept)
    IN  [trend |-> trend, collection |-> rh_collection,
         export |-> export_to_asset(trend, AssetPath("Trend2024_RH_new"), region,
                                    "RH_Trend1980_2023", ExportScale)]

(* landsat_trends.addBands(rain_trends).addBands(sm_trends).addBands(rh_trends) *)
merge_all(ls_trends, rain_trend, sm_trend, rh_trend) ==
    addBands(addBands(addBands(ls_trends, rain_trend), sm_trend), rh_trend)

----------------------------------------------------------------------------
(* main() *)

Stages == {"landsat", "chirps", "smap", "era5", "merge"}

Terminal == {"done", "no_boundary", "aborted"}

(* initialize_ee: Authenticate and Initialize under try/except Exception;  *)
(* the function returns None either way.                                   *)
initialize_ee_reraises(auth_ok) ==
    [session |-> IF auth_ok THEN "ok" ELSE "failed", raised |-> ~auth_ok,
     returns |-> "None",
     out |-> IF auth_ok THEN <<"initialized">> ELSE <<>>]

initialize_ee(auth_ok) ==
    [session |-> IF auth_ok THEN "ok" ELSE "failed", raised |-> FALSE,
     returns |-> "None",
     out |-> IF auth_ok THEN <<"initialized">> ELSE <<"Error initializing">>]

(* Where main() goes after the boundary loader returned g *)
after_boundary_unchecked(g) == "process_landsat_trends"

after_boundary(g) == IF g.isNone THEN "no_boundary" ELSE "process_landsat_trends"

(* Where main() goes after a stage: to the next statement, or out of       *)
(* main() with the exception when the stage raised.                        *)
SuccessorStage_smap_first(at) ==
    CASE at = "process_landsat_trends" -> "process_smap_trends"
      [] at = "process_smap_trends" -> "process_chirps_trends"
      [] at = "process_chirps_trends" -> "process_era5_trends"
      [] at = "process_era5_trends" -> "merge_export"
      [] at = "merge_export" -> "done"

SuccessorStage(at) ==
    CASE at = "process_landsat_trends" -> "process_chirps_trends"
      [] at = "process_chirps_trends" -> "process_smap_trends"
      [] at = "process_smap_trends" -> "process_era5_trends"
      [] at = "process_era5_trends" -> "merge_export"
      [] at = "merge_export" -> "done"

main_next_retries(at, raised) == IF raised THEN at ELSE SuccessorStage(at)

main_next(at, raised) == IF raised THEN "aborted" ELSE SuccessorStage(at)

(* The run starts with any boundary file whose rings have one vertex: the  *)
(* stages after the loader pass the region on without looking into it.     *)
Init ==
    /\ pc = "initialize_ee"
    /\ session = "none"
    /\ shapefile \in Shapefiles(1)
    /\ goa = None
    /\ ee_geometry_error = FALSE
    /\ attempts = [s \in Stages |-> 0]
    /\ mapped = <<>>
    /\ landsat_collection = <<>>
    /\ landsat_trends = <<>> /\ rain_trends = <<>> /\ sm_trends = <<>>
    /\ rh_trends = <<>> /\ all_trends = <<>>
    /\ exports = <<>>
    /\ taskStatus = <<>>
    /\ stdout = <<>>

InitializeEE ==
    /\ pc = "initialize_ee"
    /\ \E auth_ok \in BOOLEAN :
         LET r == initialize_ee(auth_ok) IN
         /\ session' = r.session
         /\ stdout' = stdout \o r.out
         /\ pc' = IF r.raised THEN "aborted" ELSE "get_goa_boundary"
    /\ UNCHANGED <<shapefile, goa, ee_geometry_error, attempts, mapped,
                   landsat_collection, landsat_trends, rain_trends, sm_trends, rh_trends,
                   all_trends, exports, taskStatus>>

GetGoaBoundary ==
    /\ pc = "get_goa_boundary"
    /\ \E ee_raises \in (IF EeGeometryMayRaise(shapefile) THEN BOOLEAN ELSE {FALSE}) :
         LET r == get_goa_boundary(shapefile, ee_raises) IN
         /\ ee_geometry_error' = ee_raises
         /\ goa' = r.value
         /\ pc' = IF r.raised THEN "aborted" ELSE after_boundary(r.value)
         /\ stdout' = Append(stdout,
                IF r.raised THEN "Traceback"
                ELSE IF after_boundary(r.value) = "no_boundary"
                     THEN "Error: Could not retrieve Goa boundary"
                     ELSE "Successfully retrieved Goa boundary")
    /\ UNCHANGED <<session, shapefile, attempts, mapped, landsat_collection, landsat_trends,
                   rain_trends, sm_trends, rh_trends, all_trends, exports, taskStatus>>

(* A stage of main() that calls a builder: the builder's queries and its   *)
(* export_to_asset call either all return, or one of them raises and the   *)
(* exception leaves main().                                                *)
Started(r) == "Started export task: " \o r.export.description

ProcessLandsatTrends ==
    /\ pc = "process_landsat_trends"
    /\ attempts' = [attempts EXCEPT !["landsat"] = @ + 1]
    /\ \E raises \in BOOLEAN :
         LET r == process_landsat_trends(goa) IN
         /\ pc' = main_next(pc, raises)
         /\ IF raises
            THEN UNCHANGED <<mapped, landsat_collection, landsat_trends, exports, taskStatus,
                            stdout>>
            ELSE /\ mapped' = r.mapped
                 /\ landsat_collection' = r.collection
                 /\ landsat_trends' = r.trend
                 /\ exports' = Append(exports, r.export)
                 /\ taskStatus' = Append(taskStatus, "SUBMITTED")
                 /\ stdout' = stdout \o <<Started(r), "Landsat trends processed successfully">>
    /\ UNCHANGED <<session, shapefile, goa, ee_geometry_error, rain_trends, sm_trends,
                   rh_trends, all_trends>>

ProcessChirpsTrends ==
    /\ pc = "process_chirps_trends"
    /\ attempts' = [attempts EXCEPT !["chirps"] = @ + 1]
    /\ \E raises \in BOOLEAN :
         LET r == process_chirps_trends(goa) IN
         /\ pc' = main_next(pc, raises)
         /\ IF raises
            THEN UNCHANGED <<rain_trends, exports, taskStatus, stdout>>
            ELSE /\ rain_trends' = r.trend
                 /\ exports' = Append(exports, r.export)
                 /\ taskStatus' = Append(taskStatus, "SUBMITTED")
                 /\ stdout' = stdout \o <<Started(r), "CHIRPS precipitation trends processed successfully">>
    /\ UNCHANGED <<session, shapefile, goa, ee_geometry_error, mapped, landsat_collection,
                   landsat_trends,
                   sm_trends, rh_trends, all_trends>>

ProcessSmapTrends ==
    /\ pc = "process_smap_trends"
    /\ attempts' = [attempts EXCEPT !["smap"] = @ + 1]
    /\ \E raises \in BOOLEAN :
         LET r == process_smap_trends(goa) IN
         /\ pc' = main_next(pc, raises)
         /\ IF raises
            THEN UNCHANGED <<sm_trends, exports, taskStatus, stdout>>
            ELSE /\ sm_trends' = r.trend
                 /\ exports' = Append(exports, r.export)
                 /\ taskStatus' = Append(taskStatus, "SUBMITTED")
                 /\ stdout' = stdout \o <<Started(r), "SMAP soil moisture trends processed successfully">>
    /\ UNCHANGED <<session, shapefile, goa, ee_geometry_error, mapped, landsat_collection,
                   landsat_trends,
                   rain_trends, rh_trends, all_trends>>

ProcessEra5Trends ==
    /\ pc = "process_era5_trends"
    /\ attempts' = [attempts EXCEPT !["era5"] = @ + 1]
    /\ \E raises \in BOOLEAN :
         LET r == process_era5_trends(goa) IN
         /\ pc' = main_next(pc, raises)
         /\ IF raises
            THEN UNCHANGED <<rh_trends, exports, taskStatus, stdout>>
            ELSE /\ rh_trends' = r.trend
                 /\ exports' = Append(exports, r.export)
                 /\ taskStatus' = Append(taskStatus, "SUBMITTED")
                 /\ stdout' = stdout \o <<Started(r), "ERA5 relative humidity trends processed successfully">>
    /\ UNCHANGED <<session, shapefile, goa, ee_geometry_error, mapped, landsat_collection,
                   landsat_trends,
                   rain_trends, sm_trends, all_trends>>

(* The merge, the export of the merged image and the closing messages *)
MergeAndExportAfterTasks ==
    /\ pc = "merge_export"
    /\ \A i \in 1..Len(taskStatus) : taskStatus[i] = "COMPLETED"
    /\ attempts' = [attempts EXCEPT !["merge"] = @ + 1]
    /\ \E raises \in BOOLEAN :
       \E merged \in {merge_all(landsat_trends, rain_trends, sm_trends, rh_trends)} :
       \E request \in {export_to_asset(merged, AssetPath("Trend2024_all_new"), goa,
                                       "All_Trends_2024", ExportScale)} :
         /\ pc' = main_next(pc, raises)
         /\ IF raises
            THEN UNCHANGED <<all_trends, exports, taskStatus, stdout>>
            ELSE /\ all_trends' = merged
                 /\ exports' = Append(exports, request)
                 /\ taskStatus' = Append(taskStatus, "SUBMITTED")
                 /\ stdout' = stdout \o <<"Started export task: " \o request.description,
                                          "Analysis completed successfully!">>
    /\ UNCHANGED <<session, shapefile, goa, ee_geometry_error, mapped, landsat_collection,
                   landsat_trends,
                   rain_trends, sm_trends, rh_trends>>

MergeAndExport ==
    /\ pc = "merge_export"
    /\ attempts' = [attempts EXCEPT !["merge"] = @ + 1]
    /\ \E raises \in BOOLEAN :
       \E merged \in {merge_all(landsat_trends, rain_trends, sm_trends, rh_trends)} :
       \E request \in {export_to_asset(merged, AssetPath("Trend2024_all_new"), goa,
                                       "All_Trends_2024", ExportScale)} :
         /\ pc' = main_next(pc, raises)
         /\ IF raises
            THEN UNCHANGED <<all_trends, exports, taskStatus, stdout>>
            ELSE /\ all_trends' = merged
                 /\ exports' = Append(exports, request)
                 /\ taskStatus' = Append(taskStatus, "SUBMITTED")
                 /\ stdout' = stdout \o <<"Started export task: " \o request.description,
                                          "Analysis completed successfully!">>
    /\ UNCHANGED <<session, shapefile, goa, ee_geometry_error, mapped, landsat_collection,
                   landsat_trends,
                   rain_trends, sm_trends, rh_trends>>

(* The remote service works on a started task: it ends COMPLETED or FAILED *)
TaskProgress ==
    /\ \E i \in 1..Len(taskStatus), outcome \in {"COMPLETED", "FAILED"} :
         /\ taskStatus[i] = "SUBMITTED"
         /\ taskStatus' = [taskStatus EXCEPT ![i] = outcome]
    /\ UNCHANGED <<pc, session, shapefile, goa, ee_geometry_error, attempts, mapped,
                   landsat_collection, landsat_trends, rain_trends, sm_trends, rh_trends, all_trends, exports,
                   stdout>>

(* A step of main() itself *)
MainStep ==
    \/ InitializeEE
    \/ GetGoaBoundary
    \/ ProcessLandsatTrends
    \/ ProcessChirpsTrends
    \/ ProcessSmapTrends
    \/ ProcessEra5Trends
    \/ MergeAndExport

Next == MainStep \/ TaskProgress

Spec == Init /\ [][Next]_vars

----------------------------------------------------------------------------
(* The boundary loader on its own: main() has run initialize_ee and is     *)
(* about to call get_goa_boundary on any boundary file within the bounds.  *)

LoaderInit ==
    /\ pc = "get_goa_boundary"
    /\ session \in {"ok", "failed"}
    /\ shapefile \in Shapefiles(MaxRingLen)
    /\ goa = None
    /\ ee_geometry_error = FALSE
    /\ attempts = [s \in Stages |-> 0]
    /\ mapped = <<>>
    /\ landsat_collection = <<>>
    /\ landsat_trends = <<>> /\ rain_trends = <<>> /\ sm_trends = <<>>
    /\ rh_trends = <<>> /\ all_trends = <<>>
    /\ exports = <<>>
    /\ taskStatus = <<>>
    /\ stdout = initialize_ee(session = "ok").out

LoaderNext == GetGoaBoundary

LoaderSpec == LoaderInit /\ [][LoaderNext]_vars

----------------------------------------------------------------------------
(* Properties *)

Range(seq) == {seq[i] : i \in 1..Len(seq)}

ProductIds ==
    {"Trend2023_landsat", "Trend2022_rain_new", "Trend2023_SM_new", "Trend2024_RH_new",
     "Trend2024_all_new"}

(* The image each logical product exports *)
ProductImage(id) ==
    CASE id = "Trend2023_landsat" -> landsat_trends
      [] id = "Trend2022_rain_new" -> rain_trends
      [] id = "Trend2023_SM_new" -> sm_trends
      [] id = "Trend2024_RH_new" -> rh_trends
      [] id = "Trend2024_all_new" -> all_trends

(* C1: a full run (boundary obtained, nothing raised) has recorded exactly *)
(* five export submissions, one per product and none twice, each to its    *)
(* fixed asset under users/jonasnothnagel/, with the region that           *)
(* get_goa_boundary returned and scale 30.                                 *)
C1_FiveExports ==
    pc = "done" =>
        /\ ~goa.isNone
        /\ Len(exports) = 5
        /\ \A id \in ProductIds :
             \E i \in 1..5 :
                /\ exports[i].assetId = <<"users", "jonasnothnagel", id>>
                /\ exports[i].region = goa
                /\ exports[i].scale = 30
                /\ exports[i].image = BandNames(ProductImage(id))
                /\ \A j \in 1..5 : exports[j].assetId = exports[i].assetId => j = i

C1_Witness ==
    /\ pc = "done"
    /\ Len(exports) = 5
    /\ Len(goa.coordinates) = 2

(* C2: every logical export of a full run has submitted two requests, one  *)
(* to asset storage and one to the Drive folder.                           *)
C2_AssetAndDrivePerExport ==
    pc = "done" =>
        /\ Cardinality({i \in 1..Len(exports) : exports[i].api = "toAsset"}) = 5
        /\ Cardinality({i \in 1..Len(exports) : exports[i].api = "toDrive"}) = 5

NoStageEntered == \A s \in Stages : attempts[s] = 0

NothingBuilt ==
    /\ mapped = <<>> /\ landsat_collection = <<>> /\ landsat_trends = <<>>
    /\ rain_trends = <<>> /\ sm_trends = <<>> /\ rh_trends = <<>> /\ all_trends = <<>>

(* C3: when get_goa_boundary returned None, main() has returned: no trend  *)
(* builder was entered, nothing was built and no export task submitted.    *)
C3_NoBoundaryReturns ==
    (pc \notin {"initialize_ee", "get_goa_boundary"} /\ goa.isNone) =>
        /\ pc = "no_boundary"
        /\ NoStageEntered
        /\ NothingBuilt
        /\ exports = <<>> /\ taskStatus = <<>>

C3_Witness ==
    /\ pc = "no_boundary"
    /\ Len(shapefile.features) > 0
    /\ stdout[Len(stdout)] = "Error: Could not retrieve Goa boundary"

(* The boundary inputs the loader gives up on *)
BadBoundaryInput ==
    \/ ~shapefile.exists
    \/ ~shapefile.readable
    \/ Len(shapefile.features) = 0
    \/ ~shapefile.features[1].is_valid
    \/ (shapefile.features[1].has_z /\ shapefile.features[1].type # "Polygon")
    \/ ee_geometry_error

(* C4: no error escapes get_goa_boundary: main() is never left by an       *)
(* exception of the loader, and for a missing file, a file that fails to   *)
(* read, an empty feature set, an invalid geometry or an exception raised  *)
(* while converting, the loader has returned None.                         *)
C4_LoaderNeverRaises ==
    pc # "get_goa_boundary" =>
        /\ pc # "aborted"
        /\ BadBoundaryInput => (goa = None /\ pc = "no_boundary")

C4_Witness ==
    /\ pc = "no_boundary"
    /\ ee_geometry_error
    /\ shapefile.features[1].type = "Polygon"
    /\ shapefile.features[1].is_valid

(* C5: main() never waits on a task: whatever the statuses of the started  *)
(* tasks, a run that has not ended can take its next step, and a full run  *)
(* ends with the completion message and five started tasks.                *)
C5_FireAndForget ==
    /\ pc \notin Terminal => ENABLED MainStep
    /\ pc = "done" =>
            /\ stdout[Len(stdout)] = "Analysis completed successfully!"
            /\ Len(taskStatus) = 5

C5_Witness ==
    /\ pc = "done"
    /\ \E i, j, k \in 1..Len(taskStatus) :
         /\ taskStatus[i] = "FAILED"
         /\ taskStatus[j] = "SUBMITTED"
         /\ taskStatus[k] = "COMPLETED"

(* C6: initialize_ee always hands control back to main(), which goes on to *)
(* the boundary loader; a failure is only printed, the value returned to   *)
(* main() being the same as on success; and with the boundary obtained     *)
(* main() enters the Landsat builder whatever the session is.              *)
C6_InitFailureDoesNotHalt ==
    [][ /\ initialize_ee(FALSE).returns = initialize_ee(TRUE).returns
        /\ pc = "initialize_ee" =>
              /\ pc' = "get_goa_boundary"
              /\ session' = "failed" => stdout'[Len(stdout')] = "Error initializing"
        /\ (pc = "get_goa_boundary" /\ ~goa'.isNone) => pc' = "process_landsat_trends"
      ]_vars

C6_Witness ==
    /\ session = "failed"
    /\ pc = "done"
    /\ Len(exports) = 5

(* The band a trend band was regressed from: the one of the stacked pair  *)
(* that is not the time band                                              *)
Regressed(b) == IF b.x = "time" THEN b.y ELSE b.x

Suffix(b) == IF b.fit = "scale" THEN "_Slope" ELSE "_Intercept"

BuilderOutputs ==
    Range(landsat_trends) \cup Range(rain_trends) \cup Range(sm_trends) \cup Range(rh_trends)

(* The name each builder gives the variable it regresses *)
TrendLabel(variable) ==
    CASE variable = "precipitation" -> "rain"
      [] variable = "soil_moisture_am" -> "sm_surface"
      [] variable = "RH" -> "rh"
      [] OTHER -> variable

NoDuplicateNames(image) == Cardinality(NameSet(image)) = Len(image)

MergedKeepsNames ==
    all_trends # <<>> =>
        /\ BandNames(all_trends) =
              BandNames(landsat_trends) \o BandNames(rain_trends) \o BandNames(sm_trends)
                  \o BandNames(rh_trends)
        /\ NoDuplicateNames(all_trends)

(* C7 as stated: every output band of every builder is named after the     *)
(* band that was regressed, <band>_Slope or <band>_Intercept, and the      *)
(* merged image has no two bands of the same name.                         *)
C7_NamedAfterRegressedBand ==
    /\ \A b \in BuilderOutputs :
          b.name \in {Regressed(b) \o "_Slope", Regressed(b) \o "_Intercept"}
    /\ MergedKeepsNames

(* C7 amended: every output band is named <label>_Slope (the fit's scale)  *)
(* or <label>_Intercept (its offset), where <label> is the regressed band  *)
(* for Landsat and the fixed labels rain, sm_surface and rh for the bands  *)
(* precipitation, soil_moisture_am and RH; the merged image carries the    *)
(* four builders' names unchanged and no name twice.                       *)
C7_BandNames ==
    /\ \A b \in BuilderOutputs :
          /\ b.fit \in {"scale", "offset"}
          /\ b.name = TrendLabel(Regressed(b)) \o Suffix(b)
    /\ \A b \in Range(landsat_trends) : TrendLabel(Regressed(b)) = Regressed(b)
    /\ MergedKeepsNames

C7_Witness ==
    /\ pc = "done"
    /\ Len(all_trends) = 28
    /\ \E i \in 1..Len(all_trends) : all_trends[i].name = "sm_surface_Intercept"

XY(ring) == [i \in 1..Len(ring) |-> <<ring[i][1], ring[i][2]>>]

FirstFeatureValidPolygon ==
    /\ Len(shapefile.features) > 0
    /\ shapefile.features[1].type = "Polygon"
    /\ shapefile.features[1].is_valid

(* C8 as stated: for a first feature that is a valid polygon the loader    *)
(* returns a single-ring polygon, the x/y pairs of the source exterior     *)
(* ring in order.                                                          *)
C8_SingleRingOfExterior ==
    (pc = "process_landsat_trends" /\ FirstFeatureValidPolygon) =>
        goa.coordinates = <<XY(shapefile.features[1].exterior)>>

(* C8 amended: for a first feature that is a valid polygon, a returned     *)
(* boundary has as its first ring the x/y pairs of the source exterior     *)
(* ring in order, and every vertex of it has two components; it is         *)
(* single-ring when the source has a z-dimension or no interior ring, and  *)
(* a 2D source is returned with its rings as they are in the file.         *)
C8_ExteriorRingKept ==
    (pc = "process_landsat_trends" /\ FirstFeatureValidPolygon) =>
        LET src == shapefile.features[1] IN
        /\ ~goa.isNone
        /\ goa.coordinates[1] = XY(src.exterior)
        /\ \A r \in 1..Len(goa.coordinates) :
              \A i \in 1..Len(goa.coordinates[r]) : Len(goa.coordinates[r][i]) = 2
        /\ (src.has_z \/ src.interiors = <<>>) => Len(goa.coordinates) = 1
        /\ ~src.has_z => goa.coordinates = <<src.exterior>> \o src.interiors

C8_Witness ==
    /\ pc = "process_landsat_trends"
    /\ FirstFeatureValidPolygon
    /\ shapefile.features[1].has_z
    /\ shapefile.features[1].interiors # <<>>
    /\ Len(shapefile.features[1].exterior) = 2
    /\ shapefile.features[1].exterior[1] # shapefile.features[1].exterior[2]
    /\ shapefile.features[1].exterior[1][1] # shapefile.features[1].exterior[1][2]

MergedSubmitted(reqs) == \E i \in 1..Len(reqs) : reqs[i].assetId[3] = "Trend2024_all_new"

(* C9: a stage that raises ends the run: it submits nothing, afterwards no *)
(* stage is entered and no export submitted (never the merged one), and no *)
(* stage is entered a second time.                                         *)
C9_AbortNoRetry ==
    [][ /\ pc = "aborted" => (pc' = "aborted" /\ exports' = exports /\ attempts' = attempts)
        /\ pc' = "aborted" => (exports' = exports /\ ~MergedSubmitted(exports'))
        /\ \A s \in Stages : attempts'[s] <= 1
      ]_vars

C9_Witness ==
    /\ pc = "aborted"
    /\ attempts["era5"] = 1
    /\ Len(exports) = 3
    /\ \E i \in 1..Len(taskStatus) : taskStatus[i] = "COMPLETED"

SmiRegressed ==
    /\ \E i \in 1..Len(landsat_collection) :
          landsat_collection[i].name = "smi" /\ landsat_collection[i].by = "addSMI"
    /\ \A i \in 1..Len(landsat_collection) :
          landsat_collection[i].name = "smi" => landsat_collection[i].by = "addSMI"
    /\ \E i \in 1..Len(landsat_trends) :
          /\ landsat_trends[i].name = "smi_Slope"
          /\ landsat_trends[i].x = "time" /\ landsat_trends[i].y = "smi"
    /\ "smi_Slope" \in Range(exports[1].image)

(* C10 as stated: a Landsat trend run computes both moisture proxies,     *)
(* calculateSMI and addSMI, and regresses the collection-wide one.        *)
C10_BothProxiesComputed ==
    landsat_trends # <<>> =>
        /\ {"calculateSMI", "addSMI"} \subseteq Range(mapped)
        /\ SmiRegressed

(* C10 amended: a Landsat trend run computes only the collection-wide     *)
(* SR_B7 normalization (addSMI); calculateSMI is never applied; the smi   *)
(* band that is regressed and exported is the collection-wide one.        *)
C10_OnlyCollectionWideSMI ==
    landsat_trends # <<>> =>
        /\ "addSMI" \in Range(mapped)
        /\ "calculateSMI" \notin Range(mapped)
        /\ SmiRegressed

C10_Witness ==
    /\ pc = "done"
    /\ "smi_Intercept" \in Range(exports[5].image)
    /\ "smi_Slope" \in Range(exports[1].image)

(* The order in which a run submits its exports *)
SubmissionOrder ==
    <<"Trend2023_landsat", "Trend2022_rain_new", "Trend2023_SM_new", "Trend2024_RH_new",
      "Trend2024_all_new">>

IsPrefix(s, t) == Len(s) <= Len(t) /\ \A i \in 1..Len(s) : s[i] = t[i]

AssetNames(reqs) == [i \in 1..Len(reqs) |-> reqs[i].assetId[3]]

StagesEntered ==
    attempts["landsat"] + attempts["chirps"] + attempts["smap"] + attempts["era5"]
        + attempts["merge"]

(* C11: the exports of a run are submitted in the order Landsat,          *)
(* precipitation, soil moisture, humidity, merged-all: what is submitted  *)
(* is always a prefix of that order, a submitted export is never          *)
(* withdrawn, and every stage entered before the current or the failed    *)
(* one has its export submitted (so the merged export comes after all     *)
(* four per-source exports).                                              *)
C11_SubmissionOrder ==
    [][ /\ IsPrefix(AssetNames(exports'), SubmissionOrder)
        /\ IsPrefix(exports, exports')
        /\ Len(exports') = StagesEntered' - (IF pc' = "aborted" THEN 1 ELSE 0)
        /\ MergedSubmitted(exports') => Len(exports') = 5
      ]_vars

C11_Witness ==
    /\ pc = "aborted"
    /\ attempts["merge"] = 1
    /\ AssetNames(exports) =
          <<"Trend2023_landsat", "Trend2022_rain_new", "Trend2023_SM_new", "Trend2024_RH_new">>
    /\ \E i \in 1..Len(taskStatus) : taskStatus[i] = "FAILED"

====
